---- MODULE Spec2Model ----
(***************************************************************************)
(* A model of ManualJournalsService                                        *)
(* (server/src/services/ManualJournals/ManualJournalsService.ts).          *)
(*                                                                         *)
(* The tenant's storage is two tables: the manual journal rows and the     *)
(* rows of their entries.  Every public method of the service is an async  *)
(* function; a request is modelled as a process whose steps are the        *)
(* database accesses of the method, each step holding the synchronous code *)
(* that runs between two accesses.  Accounts and contacts are read-only    *)
(* for this service and are fixed tables.                                  *)
(***************************************************************************)
EXTENDS Integers, Sequences, FiniteSets, TLC

(***************************************************************************)
(* Bounds.                                                                 *)
(***************************************************************************)
\* Journal ids are issued by an auto-increment column: 1, 2, ... MaxId.
MaxId == 2
\* The values moment() may return when a publishedAt is stamped: 1..MaxTime.
MaxTime == 2

JournalIds == 1..MaxId
Times == 1..MaxTime
\* Journal numbers a caller, or the sequencer, can give; 0 is "none"
\* (undefined or the empty string: falsy in the code).
Numbers == {1, 2}
AutoNumbers == {0} \cup Numbers
\* publishedAt of a draft (NULL).
NotPublished == 0

(***************************************************************************)
(* The fixed tables the validation reads.                                  *)
(***************************************************************************)
Cash == 1
Receivable == 2
Payable == 3
MissingAccount == 4
Accounts ==
    { [id |-> Cash, slug |-> "cash"],
      [id |-> Receivable, slug |-> "accounts-receivable"],
      [id |-> Payable, slug |-> "accounts-payable"] }

Customer1 == 1
Vendor2 == 2
MissingContact == 3
NoContact == 0
Contacts ==
    { [id |-> Customer1, contactService |-> "customer"],
      [id |-> Vendor2, contactService |-> "vendor"] }

(***************************************************************************)
(* Error kinds (constants.ts ERRORS, used by name in the service).         *)
(***************************************************************************)
NoErr == "none"
NOT_FOUND == "NOT_FOUND"
CREDIT_DEBIT_NOT_EQUAL_ZERO == "CREDIT_DEBIT_NOT_EQUAL_ZERO"
CREDIT_DEBIT_NOT_EQUAL == "CREDIT_DEBIT_NOT_EQUAL"
ACCCOUNTS_IDS_NOT_FOUND == "ACCCOUNTS_IDS_NOT_FOUND"
JOURNAL_NUMBER_EXISTS == "JOURNAL_NUMBER_EXISTS"
ENTRIES_SHOULD_ASSIGN_WITH_CONTACT == "ENTRIES_SHOULD_ASSIGN_WITH_CONTACT"
CONTACTS_NOT_FOUND == "CONTACTS_NOT_FOUND"
MANUAL_JOURNAL_NO_REQUIRED == "MANUAL_JOURNAL_NO_REQUIRED"
MANUAL_JOURNAL_ALREADY_PUBLISHED == "MANUAL_JOURNAL_ALREADY_PUBLISHED"
\* upsertGraph of a graph whose root id has no row (no insertMissing option).
UPSERT_ROW_MISSING == "UPSERT_ROW_MISSING"

\* The data a ServiceError is thrown with: accountSlug, contactType and
\* indexes (ENTRIES_SHOULD_ASSIGN_WITH_CONTACT), contactsIds
\* (CONTACTS_NOT_FOUND); every other error is thrown without data.
Payload(slug, ctype, indexes, contactsIds) ==
    [accountSlug |-> slug, contactType |-> ctype, indexes |-> indexes,
     contactsIds |-> contactsIds]
NoPayload == Payload("", "", <<>>, <<>>)

(***************************************************************************)
(* Entries of a DTO.                                                       *)
(***************************************************************************)
Entry(ix, acc, cr, db, cid, ctype) ==
    [index |-> ix, accountId |-> acc, credit |-> cr, debit |-> db,
     contactId |-> cid, contactType |-> ctype]

\* The lines a caller can put in a journal (without their index): cash lines
\* of several amounts, one of them negative; a receivable line with its
\* customer and one without contact type; a payable line typed "customer";
\* a receivable line typed "vendor"; a line naming a vendor as a customer; a
\* line of a contact and a line of an account that are not stored.
EntryPool ==
    { Entry(0, Cash, 1, 0, NoContact, ""),
      Entry(0, Cash, 0, 1, NoContact, ""),
      Entry(0, Cash, -1, 1, NoContact, ""),
      Entry(0, Cash, 2, 0, NoContact, ""),
      Entry(0, Receivable, 0, 1, Customer1, "customer"),
      Entry(0, Receivable, 0, 1, NoContact, ""),
      Entry(0, Payable, 1, 0, Customer1, "customer"),
      Entry(0, Receivable, 1, 0, Vendor2, "vendor"),
      Entry(0, Cash, 1, 0, Vendor2, "customer"),
      Entry(0, Cash, 1, 0, MissingContact, "customer"),
      Entry(0, MissingAccount, 1, 0, NoContact, "") }

\* The caller numbers the lines by position.
Indexed(es) == [i \in 1..Len(es) |-> [es[i] EXCEPT !.index = i]]

\* Every entries list of at most two lines of the pool.
AllEntries ==
    { Indexed(es) : es \in {<<>>} \cup { <<a>> : a \in EntryPool }
                           \cup { <<a, b>> : a \in EntryPool, b \in EntryPool } }

\* Two lists the validation accepts and one it rejects.
CashEntries ==
    Indexed(<<Entry(0, Cash, 1, 0, NoContact, ""), Entry(0, Cash, 0, 1, NoContact, "")>>)
ReceivableEntries ==
    Indexed(<<Entry(0, Cash, 1, 0, NoContact, ""),
              Entry(0, Receivable, 0, 1, Customer1, "customer")>>)
OneSidedEntries ==
    Indexed(<<Entry(0, Cash, 1, 0, NoContact, "")>>)
\* The lists of the specifications that run every method.
FewEntries == {CashEntries, ReceivableEntries, OneSidedEntries}

DTO(num, pub, es) == [journalNumber |-> num, publish |-> pub, entries |-> es]
EmptyDTO == DTO(0, FALSE, <<>>)
DTOsOver(entriesSet) ==
    { DTO(n, pb, es) : n \in AutoNumbers, pb \in BOOLEAN, es \in entriesSet }

(***************************************************************************)
(* lodash helpers.                                                         *)
(***************************************************************************)
RECURSIVE SumCredit(_)
\* sumBy(entries, 'credit')
SumCredit(es) ==
    IF es = <<>> THEN 0 ELSE es[1].credit + SumCredit(Tail(es))

RECURSIVE SumDebit(_)
\* sumBy(entries, 'debit')
SumDebit(es) ==
    IF es = <<>> THEN 0 ELSE es[1].debit + SumDebit(Tail(es))

RECURSIVE TotalCredit(_)
\* The forEach of valdiateCreditDebitTotalEquals: only credits > 0 are added.
TotalCredit(es) ==
    IF es = <<>> THEN 0
    ELSE (IF es[1].credit > 0 THEN es[1].credit ELSE 0) + TotalCredit(Tail(es))

RECURSIVE TotalDebit(_)
\* The forEach of valdiateCreditDebitTotalEquals: only debits > 0 are added.
TotalDebit(es) ==
    IF es = <<>> THEN 0
    ELSE (IF es[1].debit > 0 THEN es[1].debit ELSE 0) + TotalDebit(Tail(es))

Range(s) == { s[i] : i \in DOMAIN s }

RECURSIVE Filter(_, _)
\* Array.prototype.filter, the test given as the set of the elements kept.
Filter(s, keep) ==
    IF s = <<>> THEN <<>>
    ELSE (IF s[1] \in keep THEN <<s[1]>> ELSE <<>>) \o Filter(Tail(s), keep)

(***************************************************************************)
(* The validation rules, each giving the error it throws or NoErr.         *)
(***************************************************************************)
\* valdiateCreditDebitTotalEquals without the comparison of the two totals.
valdiateCreditDebitTotalEqualsNoCompare(es) ==
    IF TotalCredit(es) <= 0 \/ TotalDebit(es) <= 0
    THEN CREDIT_DEBIT_NOT_EQUAL_ZERO
    ELSE NoErr

valdiateCreditDebitTotalEquals(es) ==
    IF TotalCredit(es) <= 0 \/ TotalDebit(es) <= 0
    THEN CREDIT_DEBIT_NOT_EQUAL_ZERO
    ELSE IF TotalCredit(es) # TotalDebit(es)
         THEN CREDIT_DEBIT_NOT_EQUAL
         ELSE NoErr

\* The entries pushed to notFoundContactsIds.
ContactsNotFound(es) ==
    Filter(es, { e \in Range(es) :
                   /\ e.contactId # NoContact
                   /\ \/ ~ \E c \in Contacts : c.id = e.contactId
                      \/ \E c \in Contacts :
                            c.id = e.contactId /\ c.contactService # e.contactType })

validateContactsExistance(es) ==
    IF ContactsNotFound(es) # <<>> THEN CONTACTS_NOT_FOUND ELSE NoErr

\* storedContactsMap.get(contactId): the stored contact, or undefined.
Undefined == [id |-> 0, contactService |-> "undefined"]
StoredContact(contactId) ==
    IF \E c \in Contacts : c.id = contactId
    THEN CHOOSE c \in Contacts : c.id = contactId
    ELSE Undefined

\* notFoundContactsIds: storedContact is pushed for every entry found at fault.
NotFoundContactsIds(es) ==
    [i \in DOMAIN ContactsNotFound(es) |->
        StoredContact(ContactsNotFound(es)[i].contactId)]

validateAccountsExistance(es) ==
    IF \E e \in Range(es) : ~ \E a \in Accounts : a.id = e.accountId
    THEN ACCCOUNTS_IDS_NOT_FOUND
    ELSE NoErr

\* validateManualJournalNoUnique without the whereNot('id', notId).
validateManualJournalNoUniqueAnyId(rows, journalNumber, notId) ==
    IF \E i \in DOMAIN rows : rows[i].journalNumber = journalNumber
    THEN JOURNAL_NUMBER_EXISTS
    ELSE NoErr

\* rows: the journal rows stored; notId = 0 when the caller gives none.
validateManualJournalNoUnique(rows, journalNumber, notId) ==
    IF \E i \in DOMAIN rows :
          /\ rows[i].journalNumber = journalNumber
          /\ (notId # 0 => i # notId)
    THEN JOURNAL_NUMBER_EXISTS
    ELSE NoErr

\* EntriesNoContact without the filter on the account of the entry.
EntriesNoContactAnyAccount(es, accountBySlug, contactType) ==
    Filter(es, { e \in Range(es) :
                   e.contactType = "" \/ e.contactType # contactType })

\* The entries of the account with the given slug whose contactType is
\* missing or is not the one required.
EntriesNoContact(es, accountBySlug, contactType) ==
    LET account == CHOOSE a \in Accounts : a.slug = accountBySlug
    IN  Filter(es, { e \in Range(es) :
                       /\ e.accountId = account.id
                       /\ (e.contactType = "" \/ e.contactType # contactType) })

validateAccountWithContactType(es, accountBySlug, contactType) ==
    IF EntriesNoContact(es, accountBySlug, contactType) # <<>>
    THEN ENTRIES_SHOULD_ASSIGN_WITH_CONTACT
    ELSE NoErr

\* The data validateAccountWithContactType throws its error with.
AccountWithContactTypePayload(es, accountBySlug, contactType) ==
    Payload(accountBySlug, contactType,
            [i \in DOMAIN EntriesNoContact(es, accountBySlug, contactType) |->
                EntriesNoContact(es, accountBySlug, contactType)[i].index],
            <<>>)

\* The two checks of dynamicValidateAccountsWithContactType.
ContactTypeChecks ==
    { [accountBySlug |-> "accounts-receivable", contactType |-> "customer"],
      [accountBySlug |-> "accounts-payable", contactType |-> "vendor"] }

\* Promise.all of the two checks: the set of the errors it can reject with
\* (the first rejection wins), empty when both checks pass.
dynamicValidateAccountsWithContactType(es) ==
    { validateAccountWithContactType(es, "accounts-receivable", "customer"),
      validateAccountWithContactType(es, "accounts-payable", "vendor") } \ {NoErr}

validateJournalNoRequire(journalNumber) ==
    IF journalNumber = 0 THEN MANUAL_JOURNAL_NO_REQUIRED ELSE NoErr

\* validateManualJournalIsNotPublished that never throws.
validateManualJournalIsNotPublishedNever(manualJournal) ==
    NoErr

validateManualJournalIsNotPublished(manualJournal) ==
    IF manualJournal.publishedAt # NotPublished
    THEN MANUAL_JOURNAL_ALREADY_PUBLISHED
    ELSE NoErr

(***************************************************************************)
(* The DTO transforms.  In a model object journalNumber = 0 and            *)
(* publishedAt = NotPublished stand for "the key is not in the object".    *)
(***************************************************************************)
Model(id, num, pubAt, amount, es) ==
    [id |-> id, journalNumber |-> num, publishedAt |-> pubAt,
     amount |-> amount, entries |-> es]
NoModel == Model(0, 0, NotPublished, 0, <<>>)

\* transformNewDTOToModel with the sequencer's number taken before the DTO's.
transformNewDTOToModelAutoFirst(dto, autoNextNumber, now) ==
    Model(0,
          IF autoNextNumber # 0 THEN autoNextNumber ELSE dto.journalNumber,
          IF dto.publish THEN now ELSE NotPublished,
          SumCredit(dto.entries),
          dto.entries)

\* autoNextNumber: what getNextJournalNumber returns; now: moment().
transformNewDTOToModel(dto, autoNextNumber, now) ==
    Model(0,
          IF dto.journalNumber # 0 THEN dto.journalNumber ELSE autoNextNumber,
          IF dto.publish THEN now ELSE NotPublished,
          SumCredit(dto.entries),
          dto.entries)

\* transformEditDTOToModel without the test of the old publishedAt.
transformEditDTOToModelRestamp(dto, oldManualJournal, now) ==
    Model(oldManualJournal.id,
          dto.journalNumber,
          IF dto.publish THEN now ELSE NotPublished,
          SumCredit(dto.entries),
          dto.entries)

transformEditDTOToModel(dto, oldManualJournal, now) ==
    Model(oldManualJournal.id,
          dto.journalNumber,
          IF dto.publish /\ oldManualJournal.publishedAt = NotPublished
          THEN now ELSE NotPublished,
          SumCredit(dto.entries),
          dto.entries)

(***************************************************************************)
(* State.                                                                  *)
(***************************************************************************)
\* The requests of the sequential and of the concurrent specifications.
AllProcs == {1, 2}
SeqProcs == {1}

VARIABLES
    journals,    \* the manual_journals table: stored id -> row
    entriesTbl,  \* the manual_journal_entries table: journal id -> its rows
    nextId,      \* the next value of the auto-increment id
    pc,          \* per request: the database access it is about to make
    op,          \* per request: the method called
    dto,         \* per request: manualJournalDTO
    jid,         \* per request: manualJournalId
    ids,         \* per request: manualJournalsIds
    old,         \* per request: oldManualJournal(s), as fetched with entries
    obj,         \* per request: manualJournalObj
    err,         \* per request: the ServiceError thrown
    ret,         \* per request: the journal(s) fetched or upserted last
    log,         \* per request: the writes issued and events dispatched, in order
    payload,     \* per request: the data of the ServiceError thrown
    auto,        \* per request: autoNextNumber, as the sequencer gave it
    poster,      \* per request: the JournalPoster of writeJournalEntries
    meta,        \* per request: the counts publishManualJournals returns
    form         \* the payment form: amount, entries, entries after allocation

vars == <<journals, entriesTbl, nextId, pc, op, dto, jid, ids, old, obj, err, ret, log, payload, auto, poster, meta, form>>
store == <<journals, entriesTbl, nextId>>

\* The four commit effects of writeJournalEntries.
Effects == {"saveBalance", "deleteEntries", "saveEntries", "saveContactsBalance"}

\* The JournalPoster of a call: whether override was asked, where the revert
\* is ("none", "pending", "done", "failed"), the journals whose lines were
\* appended, and where each commit effect is ("idle", "pending", "ok",
\* "failed").
Poster(override, revert, lines, effects) ==
    [override |-> override, revert |-> revert, lines |-> lines, effects |-> effects]
NoPoster == Poster(FALSE, "none", <<>>, [e \in Effects |-> "idle"])

\* The meta object publishManualJournals returns.
Meta(alreadyPublished, published, total) ==
    [alreadyPublished |-> alreadyPublished, published |-> published, total |-> total]
NoMeta == Meta(0, 0, 0)

\* The payment receive form (PaymentReceiveForm/utils.tsx): the amount
\* received, the entries of the due invoices, and the entries
\* amountPaymentEntries gave once it was applied.
Form(amount, entries, result, applied) ==
    [amount |-> amount, entries |-> entries, result |-> result, applied |-> applied]
NoForm == Form(0, <<>>, <<>>, FALSE)

Row(id, num, pubAt, amount) ==
    [id |-> id, journalNumber |-> num, publishedAt |-> pubAt, amount |-> amount]

\* ManualJournal.query().findById(id).withGraphFetched('entries'): a sequence
\* of one journal, or the empty sequence for undefined.
Fetch(rows, tbl, id) ==
    IF id \in DOMAIN rows
    THEN << Model(id, rows[id].journalNumber, rows[id].publishedAt,
                  rows[id].amount, tbl[id]) >>
    ELSE <<>>

RECURSIVE FetchIn(_, _, _)
\* ManualJournal.query().whereIn('id', ids).withGraphFetched('entries'): the
\* rows whose id is in the set, in the order of their ids.
FetchIn(rows, tbl, idSet) ==
    IF idSet \cap DOMAIN rows = {} THEN <<>>
    ELSE LET i == CHOOSE x \in idSet \cap DOMAIN rows :
                      \A y \in idSet \cap DOMAIN rows : x <= y
         IN  Fetch(rows, tbl, i) \o FetchIn(rows, tbl, idSet \ {i})

\* An entry of a request's log.
Write(name) == [kind |-> "write", name |-> name, journals |-> <<>>, old |-> <<>>, ids |-> <<>>]
Event(name, js, olds, idList) ==
    [kind |-> "event", name |-> name, journals |-> js, old |-> olds, ids |-> idList]
\* A commit effect of writeJournalEntries settled: its writes are done, or
\* it rejected.
Settled(name, ok) ==
    [kind |-> IF ok THEN "write" ELSE "rejected", name |-> name,
     journals |-> <<>>, old |-> <<>>, ids |-> <<>>]

Init ==
    /\ journals = <<>>
    /\ entriesTbl = [i \in JournalIds |-> <<>>]
    /\ nextId = 1
    /\ pc = [p \in AllProcs |-> "idle"]
    /\ op = [p \in AllProcs |-> "none"]
    /\ dto = [p \in AllProcs |-> EmptyDTO]
    /\ jid = [p \in AllProcs |-> 0]
    /\ ids = [p \in AllProcs |-> <<>>]
    /\ old = [p \in AllProcs |-> <<>>]
    /\ obj = [p \in AllProcs |-> NoModel]
    /\ err = [p \in AllProcs |-> NoErr]
    /\ ret = [p \in AllProcs |-> <<>>]
    /\ log = [p \in AllProcs |-> <<>>]
    /\ payload = [p \in AllProcs |-> NoPayload]
    /\ auto = [p \in AllProcs |-> 0]
    /\ poster = [p \in AllProcs |-> NoPoster]
    /\ meta = [p \in AllProcs |-> NoMeta]
    /\ form = NoForm

\* throw new ServiceError(e): the method ends.
ThrowWith(p, e, data) ==
    /\ pc' = [pc EXCEPT ![p] = "failed"]
    /\ err' = [err EXCEPT ![p] = e]
    /\ payload' = [payload EXCEPT ![p] = data]

Throw(p, e) == ThrowWith(p, e, NoPayload)

\* The requests that will still insert a journal.
PendingCreates ==
    { q \in AllProcs : op[q] = "create" /\ pc[q] \notin {"idle", "done", "failed"} }

(***************************************************************************)
(* makeJournalEntries and editJournalEntries.                              *)
(***************************************************************************)
\* makeJournalEntries up to its first await: the transform and the balance rule.
MakeJournalEntries(p, d, autoNextNumber, now) ==
    /\ pc[p] = "idle"
    /\ nextId + Cardinality(PendingCreates) <= MaxId
    /\ op' = [op EXCEPT ![p] = "create"]
    /\ dto' = [dto EXCEPT ![p] = d]
    /\ LET o == transformNewDTOToModel(d, autoNextNumber, now)
       IN  IF validateJournalNoRequire(o.journalNumber) # NoErr
           THEN Throw(p, validateJournalNoRequire(o.journalNumber)) /\ UNCHANGED obj
           ELSE /\ obj' = [obj EXCEPT ![p] = o]
                /\ IF valdiateCreditDebitTotalEquals(d.entries) # NoErr
                   THEN Throw(p, valdiateCreditDebitTotalEquals(d.entries))
                   ELSE pc' = [pc EXCEPT ![p] = "contacts"] /\ UNCHANGED <<err, payload>>
    /\ auto' = [auto EXCEPT ![p] = autoNextNumber]
    /\ UNCHANGED <<store, jid, ids, old, ret, log>>
    /\ UNCHANGED poster
    /\ UNCHANGED meta
    /\ UNCHANGED form

\* editJournalEntries up to validateContactsExistance: the journal is
\* resolved, then the transform and the balance rule run.
EditJournalEntries(p, id, d, now) ==
    /\ pc[p] = "idle"
    /\ op' = [op EXCEPT ![p] = "edit"]
    /\ dto' = [dto EXCEPT ![p] = d]
    /\ jid' = [jid EXCEPT ![p] = id]
    /\ IF Fetch(journals, entriesTbl, id) = <<>>
       THEN Throw(p, NOT_FOUND) /\ UNCHANGED <<old, obj>>
       ELSE /\ old' = [old EXCEPT ![p] = Fetch(journals, entriesTbl, id)]
            /\ obj' = [obj EXCEPT ![p] =
                          transformEditDTOToModel(d, Fetch(journals, entriesTbl, id)[1], now)]
            /\ IF valdiateCreditDebitTotalEquals(d.entries) # NoErr
               THEN Throw(p, valdiateCreditDebitTotalEquals(d.entries))
               ELSE pc' = [pc EXCEPT ![p] = "contacts"] /\ UNCHANGED <<err, payload>>
    /\ UNCHANGED <<store, ids, ret, log>>
    /\ UNCHANGED auto
    /\ UNCHANGED poster
    /\ UNCHANGED meta
    /\ UNCHANGED form

\* await this.validateContactsExistance(tenantId, manualJournalDTO)
ValidateContacts(p) ==
    /\ pc[p] = "contacts"
    /\ IF validateContactsExistance(dto[p].entries) # NoErr
       THEN ThrowWith(p, validateContactsExistance(dto[p].entries),
                      Payload("", "", <<>>, NotFoundContactsIds(dto[p].entries)))
       ELSE pc' = [pc EXCEPT ![p] = "accounts"] /\ UNCHANGED <<err, payload>>
    /\ UNCHANGED <<store, op, dto, jid, ids, old, obj, ret, log>>
    /\ UNCHANGED auto
    /\ UNCHANGED poster
    /\ UNCHANGED meta
    /\ UNCHANGED form

\* ValidateAccounts with the rejection of the rule not awaited: the method
\* goes on whatever the rule finds.
ValidateAccountsNotAwaited(p) ==
    /\ pc[p] = "accounts"
    /\ pc' = [pc EXCEPT ![p] = "unique"]
    /\ UNCHANGED <<store, op, dto, jid, ids, old, obj, err, payload, ret, log>>
    /\ UNCHANGED auto
    /\ UNCHANGED poster
    /\ UNCHANGED meta
    /\ UNCHANGED form

\* await this.validateAccountsExistance(tenantId, manualJournalDTO)
ValidateAccounts(p) ==
    /\ pc[p] = "accounts"
    /\ IF validateAccountsExistance(dto[p].entries) # NoErr
       THEN Throw(p, validateAccountsExistance(dto[p].entries))
       ELSE pc' = [pc EXCEPT ![p] = "unique"] /\ UNCHANGED <<err, payload>>
    /\ UNCHANGED <<store, op, dto, jid, ids, old, obj, ret, log>>
    /\ UNCHANGED auto
    /\ UNCHANGED poster
    /\ UNCHANGED meta
    /\ UNCHANGED form

\* The journal-number rule as each method calls it: create checks the number
\* of the model object against every row; edit checks the DTO's number, when
\* it has one, against every row but its own.
UniqueError(p) ==
    IF op[p] = "create"
    THEN validateManualJournalNoUnique(journals, obj[p].journalNumber, 0)
    ELSE IF dto[p].journalNumber # 0
         THEN validateManualJournalNoUnique(journals, dto[p].journalNumber, jid[p])
         ELSE NoErr

\* ValidateUnique with the contact-type rule run before the journal-number
\* rule.
ValidateUniqueAfterContactType(p) ==
    /\ pc[p] = "unique"
    /\ IF dynamicValidateAccountsWithContactType(dto[p].entries) # {}
       THEN \E e \in dynamicValidateAccountsWithContactType(dto[p].entries) : Throw(p, e)
       ELSE IF UniqueError(p) # NoErr
            THEN Throw(p, UniqueError(p))
            ELSE pc' = [pc EXCEPT ![p] = "contactType"] /\ UNCHANGED <<err, payload>>
    /\ UNCHANGED <<store, op, dto, jid, ids, old, obj, ret, log, auto>>
    /\ UNCHANGED poster
    /\ UNCHANGED meta
    /\ UNCHANGED form

ValidateUnique(p) ==
    /\ pc[p] = "unique"
    /\ IF UniqueError(p) # NoErr
       THEN Throw(p, UniqueError(p))
       ELSE pc' = [pc EXCEPT ![p] = "contactType"] /\ UNCHANGED <<err, payload>>
    /\ UNCHANGED <<store, op, dto, jid, ids, old, obj, ret, log>>
    /\ UNCHANGED auto
    /\ UNCHANGED poster
    /\ UNCHANGED meta
    /\ UNCHANGED form

\* await this.dynamicValidateAccountsWithContactType(tenantId, entries)
ValidateContactType(p) ==
    /\ pc[p] = "contactType"
    /\ IF dynamicValidateAccountsWithContactType(dto[p].entries) # {}
       THEN \E c \in ContactTypeChecks :
               /\ validateAccountWithContactType(
                      dto[p].entries, c.accountBySlug, c.contactType) # NoErr
               /\ ThrowWith(p,
                     validateAccountWithContactType(
                         dto[p].entries, c.accountBySlug, c.contactType),
                     AccountWithContactTypePayload(
                         dto[p].entries, c.accountBySlug, c.contactType))
       ELSE pc' = [pc EXCEPT ![p] = "upsert"] /\ UNCHANGED <<err, payload>>
    /\ UNCHANGED <<store, op, dto, jid, ids, old, obj, ret, log>>
    /\ UNCHANGED auto
    /\ UNCHANGED poster
    /\ UNCHANGED meta
    /\ UNCHANGED form

\* ManualJournal.query().upsertGraph of a graph without id: the row and its
\* entries are inserted; then onCreated is dispatched.
UpsertNew(p) ==
    /\ pc[p] = "upsert" /\ op[p] = "create"
    /\ journals' = (nextId :> Row(nextId, obj[p].journalNumber, obj[p].publishedAt,
                                  obj[p].amount)) @@ journals
    /\ entriesTbl' = [entriesTbl EXCEPT ![nextId] = obj[p].entries]
    /\ nextId' = nextId + 1
    /\ jid' = [jid EXCEPT ![p] = nextId]
    /\ ret' = [ret EXCEPT ![p] = Fetch(journals', entriesTbl', nextId)]
    /\ log' = [log EXCEPT ![p] =
                  @ \o << Write("upsertGraph"),
                          Event("onCreated", Fetch(journals', entriesTbl', nextId),
                                <<>>, <<nextId>>) >>]
    /\ pc' = [pc EXCEPT ![p] = "done"]
    /\ UNCHANGED <<op, dto, ids, old, obj, err, payload>>
    /\ UNCHANGED auto
    /\ UNCHANGED poster
    /\ UNCHANGED meta
    /\ UNCHANGED form

\* upsertGraph of a graph with an id: the keys the object holds are written
\* to the row and the entries are replaced.
UpsertEdit(p) ==
    /\ pc[p] = "upsert" /\ op[p] = "edit"
    /\ IF jid[p] \notin DOMAIN journals
       THEN Throw(p, UPSERT_ROW_MISSING) /\ UNCHANGED <<store, log>>
       ELSE /\ journals' = [journals EXCEPT ![jid[p]] =
                   Row(jid[p],
                       IF obj[p].journalNumber # 0 THEN obj[p].journalNumber
                       ELSE @.journalNumber,
                       IF obj[p].publishedAt # NotPublished THEN obj[p].publishedAt
                       ELSE @.publishedAt,
                       obj[p].amount)]
            /\ entriesTbl' = [entriesTbl EXCEPT ![jid[p]] = obj[p].entries]
            /\ log' = [log EXCEPT ![p] = Append(@, Write("upsertGraph"))]
            /\ pc' = [pc EXCEPT ![p] = "refetch"]
            /\ UNCHANGED <<nextId, err, payload>>
    /\ UNCHANGED <<op, dto, jid, ids, old, obj, ret>>
    /\ UNCHANGED auto
    /\ UNCHANGED poster
    /\ UNCHANGED meta
    /\ UNCHANGED form

\* The fetch after the write of editJournalEntries and publishManualJournal,
\* and the event that follows it.
Refetch(p) ==
    /\ pc[p] = "refetch"
    /\ ret' = [ret EXCEPT ![p] = Fetch(journals, entriesTbl, jid[p])]
    /\ log' = [log EXCEPT ![p] =
                  Append(@, Event(IF op[p] = "edit" THEN "onEdited" ELSE "onPublished",
                                  Fetch(journals, entriesTbl, jid[p]), old[p], <<jid[p]>>))]
    /\ pc' = [pc EXCEPT ![p] = "done"]
    /\ UNCHANGED <<store, op, dto, jid, ids, old, obj, err, payload>>
    /\ UNCHANGED auto
    /\ UNCHANGED poster
    /\ UNCHANGED meta
    /\ UNCHANGED form

\* The method returned or threw: the request is over.
Return(p) ==
    /\ pc[p] \in {"done", "failed"}
    /\ \A e \in Effects : poster[p].effects[e] # "pending"
    /\ pc' = [pc EXCEPT ![p] = "idle"]
    /\ op' = [op EXCEPT ![p] = "none"]
    /\ dto' = [dto EXCEPT ![p] = EmptyDTO]
    /\ jid' = [jid EXCEPT ![p] = 0]
    /\ ids' = [ids EXCEPT ![p] = <<>>]
    /\ old' = [old EXCEPT ![p] = <<>>]
    /\ obj' = [obj EXCEPT ![p] = NoModel]
    /\ err' = [err EXCEPT ![p] = NoErr]
    /\ ret' = [ret EXCEPT ![p] = <<>>]
    /\ log' = [log EXCEPT ![p] = <<>>]
    /\ payload' = [payload EXCEPT ![p] = NoPayload]
    /\ auto' = [auto EXCEPT ![p] = 0]
    /\ poster' = [poster EXCEPT ![p] = NoPoster]
    /\ meta' = [meta EXCEPT ![p] = NoMeta]
    /\ UNCHANGED store
    /\ UNCHANGED form

(***************************************************************************)
(* deleteManualJournal and deleteManualJournals.                           *)
(***************************************************************************)
\* Batches of ids a caller can pass: every list of at most MaxBatch ids.
MaxBatch == 2
IdLists == UNION { [1..n -> JournalIds] : n \in 0..MaxBatch }

\* difference with its arguments swapped: the fetched ids that were not asked.
NotFoundIdsSwapped(idList, fetched) ==
    Filter([i \in DOMAIN fetched |-> fetched[i].id],
           { fetched[i].id : i \in DOMAIN fetched } \ Range(idList))

\* lodash difference(manualJournalsIds, manualJournals.map((m) => m.id))
NotFoundIds(idList, fetched) ==
    Filter(idList, Range(idList) \ { fetched[i].id : i \in DOMAIN fetched })

\* The journal(s) a single or a bulk method works on.
Targets(p) ==
    IF op[p] \in {"deleteBulk", "publishBulk"} THEN Range(ids[p]) ELSE {jid[p]}

\* getManualJournalOrThrowError, as deleteManualJournal calls it.
DeleteManualJournal(p, id) ==
    /\ pc[p] = "idle"
    /\ op' = [op EXCEPT ![p] = "delete"]
    /\ jid' = [jid EXCEPT ![p] = id]
    /\ IF Fetch(journals, entriesTbl, id) = <<>>
       THEN Throw(p, NOT_FOUND) /\ UNCHANGED old
       ELSE /\ old' = [old EXCEPT ![p] = Fetch(journals, entriesTbl, id)]
            /\ pc' = [pc EXCEPT ![p] = "delEntries"]
            /\ UNCHANGED <<err, payload>>
    /\ UNCHANGED <<store, dto, ids, obj, ret, log>>
    /\ UNCHANGED auto
    /\ UNCHANGED poster
    /\ UNCHANGED meta
    /\ UNCHANGED form

\* getManualJournalsOrThrowError, as deleteManualJournals calls it.
DeleteManualJournals(p, idList) ==
    /\ pc[p] = "idle"
    /\ op' = [op EXCEPT ![p] = "deleteBulk"]
    /\ ids' = [ids EXCEPT ![p] = idList]
    /\ IF NotFoundIds(idList, FetchIn(journals, entriesTbl, Range(idList))) # <<>>
       THEN Throw(p, NOT_FOUND) /\ UNCHANGED old
       ELSE /\ old' = [old EXCEPT ![p] = FetchIn(journals, entriesTbl, Range(idList))]
            /\ pc' = [pc EXCEPT ![p] = "delEntries"]
            /\ UNCHANGED <<err, payload>>
    /\ UNCHANGED <<store, dto, jid, obj, ret, log>>
    /\ UNCHANGED auto
    /\ UNCHANGED poster
    /\ UNCHANGED meta
    /\ UNCHANGED form

\* DeleteEntries with the delete of the journal rows in the place of the
\* delete of their entries.
DeleteEntriesParentFirst(p) ==
    /\ pc[p] = "delEntries"
    /\ journals' = [i \in DOMAIN journals \ Targets(p) |-> journals[i]]
    /\ log' = [log EXCEPT ![p] = Append(@, Write("deleteEntries"))]
    /\ pc' = [pc EXCEPT ![p] = "delJournal"]
    /\ UNCHANGED <<entriesTbl, nextId, op, dto, jid, ids, old, obj, err, payload, ret>>
    /\ UNCHANGED auto
    /\ UNCHANGED poster
    /\ UNCHANGED meta
    /\ UNCHANGED form

\* ManualJournalEntry.query().where[In]('manual_journal_id', ...).delete()
DeleteEntries(p) ==
    /\ pc[p] = "delEntries"
    /\ entriesTbl' = [i \in JournalIds |->
                         IF i \in Targets(p) THEN <<>> ELSE entriesTbl[i]]
    /\ log' = [log EXCEPT ![p] = Append(@, Write("deleteEntries"))]
    /\ pc' = [pc EXCEPT ![p] = "delJournal"]
    /\ UNCHANGED <<journals, nextId, op, dto, jid, ids, old, obj, err, payload, ret>>
    /\ UNCHANGED auto
    /\ UNCHANGED poster
    /\ UNCHANGED meta
    /\ UNCHANGED form

\* ManualJournal.query().findById(id).delete() or .whereIn('id', ids).delete(),
\* then the event: onDeleted carries oldManualJournal, onDeletedBulk only the ids.
DeleteJournal(p) ==
    /\ pc[p] = "delJournal"
    /\ journals' = [i \in DOMAIN journals \ Targets(p) |-> journals[i]]
    /\ log' = [log EXCEPT ![p] =
                  @ \o << Write("deleteJournal"),
                          IF op[p] = "delete"
                          THEN Event("onDeleted", <<>>, old[p], <<jid[p]>>)
                          ELSE Event("onDeletedBulk", <<>>, <<>>, ids[p]) >>]
    /\ pc' = [pc EXCEPT ![p] = "done"]
    /\ UNCHANGED <<entriesTbl, nextId, op, dto, jid, ids, old, obj, err, payload, ret>>
    /\ UNCHANGED auto
    /\ UNCHANGED poster
    /\ UNCHANGED meta
    /\ UNCHANGED form

(***************************************************************************)
(* publishManualJournal and publishManualJournals.                         *)
(***************************************************************************)
\* manualJournals.filter((manualJournal) => !manualJournal.publishedAt)
getNonePublishedManualJournals(manualJournals) ==
    Filter(manualJournals,
           { j \in Range(manualJournals) : j.publishedAt = NotPublished })

\* getPublishedManualJournals without its filter.
getPublishedManualJournalsUnfiltered(manualJournals) ==
    manualJournals

\* manualJournals.filter((expense) => expense.publishedAt)
getPublishedManualJournals(manualJournals) ==
    Filter(manualJournals,
           { j \in Range(manualJournals) : j.publishedAt # NotPublished })

\* map(notPublishedJournals, 'id'), as the set the whereIn selects.
NotPublishedJournalsIds(p) ==
    { j.id : j \in Range(getNonePublishedManualJournals(old[p])) }

\* The counts publishManualJournals returns for the journals it fetched.
PublishMeta(oldManualJournals) ==
    Meta(Len(getPublishedManualJournals(oldManualJournals)),
         Len(getNonePublishedManualJournals(oldManualJournals)),
         Len(oldManualJournals))

\* publishManualJournal up to the patch: the journal is resolved and must be
\* a draft.
PublishManualJournal(p, id) ==
    /\ pc[p] = "idle"
    /\ op' = [op EXCEPT ![p] = "publish"]
    /\ jid' = [jid EXCEPT ![p] = id]
    /\ IF Fetch(journals, entriesTbl, id) = <<>>
       THEN Throw(p, NOT_FOUND) /\ UNCHANGED old
       ELSE /\ old' = [old EXCEPT ![p] = Fetch(journals, entriesTbl, id)]
            /\ IF validateManualJournalIsNotPublished(
                      Fetch(journals, entriesTbl, id)[1]) # NoErr
               THEN Throw(p, validateManualJournalIsNotPublished(
                                 Fetch(journals, entriesTbl, id)[1]))
               ELSE pc' = [pc EXCEPT ![p] = "patch"] /\ UNCHANGED <<err, payload>>
    /\ UNCHANGED <<store, dto, ids, obj, ret, log>>
    /\ UNCHANGED auto
    /\ UNCHANGED poster
    /\ UNCHANGED meta
    /\ UNCHANGED form

\* publishManualJournals up to the patch; with no draft among the journals
\* the event is dispatched at once.
PublishManualJournals(p, idList) ==
    /\ pc[p] = "idle"
    /\ op' = [op EXCEPT ![p] = "publishBulk"]
    /\ ids' = [ids EXCEPT ![p] = idList]
    /\ LET fetched == FetchIn(journals, entriesTbl, Range(idList))
       IN  IF NotFoundIds(idList, fetched) # <<>>
           THEN Throw(p, NOT_FOUND) /\ UNCHANGED <<old, log, meta>>
           ELSE /\ old' = [old EXCEPT ![p] = fetched]
                /\ UNCHANGED <<err, payload>>
                /\ IF Len(getNonePublishedManualJournals(fetched)) > 0
                   THEN pc' = [pc EXCEPT ![p] = "patch"] /\ UNCHANGED <<log, meta>>
                   ELSE /\ pc' = [pc EXCEPT ![p] = "done"]
                        /\ log' = [log EXCEPT ![p] =
                               Append(@, Event("onPublishedBulk", <<>>, fetched, idList))]
                        /\ meta' = [meta EXCEPT ![p] = PublishMeta(fetched)]
    /\ UNCHANGED <<store, dto, jid, obj, ret>>
    /\ UNCHANGED auto
    /\ UNCHANGED poster
    /\ UNCHANGED form

\* The patch of the bulk publish selecting every requested id.
PatchIdsAllRequested(p) ==
    Targets(p)

\* The ids the patch of a publish selects.
PatchIds(p) ==
    IF op[p] = "publishBulk" THEN NotPublishedJournalsIds(p) ELSE {jid[p]}

\* .patch({ publishedAt: moment().toMySqlDateTime() }) on the rows selected;
\* the bulk method dispatches its event next, the single one fetches first.
Patch(p, now) ==
    /\ pc[p] = "patch"
    /\ journals' = [i \in DOMAIN journals |->
                       IF i \in PatchIds(p)
                       THEN [journals[i] EXCEPT !.publishedAt = now]
                       ELSE journals[i]]
    /\ IF op[p] = "publishBulk"
       THEN /\ log' = [log EXCEPT ![p] =
                          @ \o << Write("patch"),
                                  Event("onPublishedBulk", <<>>, old[p], ids[p]) >>]
            /\ pc' = [pc EXCEPT ![p] = "done"]
            /\ meta' = [meta EXCEPT ![p] = PublishMeta(old[p])]
       ELSE /\ log' = [log EXCEPT ![p] = Append(@, Write("patch"))]
            /\ pc' = [pc EXCEPT ![p] = "refetch"]
            /\ UNCHANGED meta
    /\ UNCHANGED <<entriesTbl, nextId, op, dto, jid, ids, old, obj, err, payload, ret>>
    /\ UNCHANGED auto
    /\ UNCHANGED poster
    /\ UNCHANGED form

(***************************************************************************)
(* getManualJournal.                                                       *)
(***************************************************************************)
GetManualJournal(p, id) ==
    /\ pc[p] = "idle"
    /\ op' = [op EXCEPT ![p] = "get"]
    /\ jid' = [jid EXCEPT ![p] = id]
    /\ IF Fetch(journals, entriesTbl, id) = <<>>
       THEN Throw(p, NOT_FOUND)
       ELSE pc' = [pc EXCEPT ![p] = "fetch"] /\ UNCHANGED <<err, payload>>
    /\ UNCHANGED <<store, dto, ids, old, obj, ret, log>>
    /\ UNCHANGED auto
    /\ UNCHANGED poster
    /\ UNCHANGED meta
    /\ UNCHANGED form

\* FetchJournal without withGraphFetched('entries').
FetchJournalNoGraph(p) ==
    /\ pc[p] = "fetch"
    /\ ret' = [ret EXCEPT ![p] =
                  [i \in DOMAIN Fetch(journals, entriesTbl, jid[p]) |->
                      [Fetch(journals, entriesTbl, jid[p])[i] EXCEPT !.entries = <<>>]]]
    /\ pc' = [pc EXCEPT ![p] = "done"]
    /\ UNCHANGED <<store, op, dto, jid, ids, old, obj, err, payload, log, auto>>
    /\ UNCHANGED poster
    /\ UNCHANGED meta
    /\ UNCHANGED form

\* The second query of getManualJournal: what the method returns.
FetchJournal(p) ==
    /\ pc[p] = "fetch"
    /\ ret' = [ret EXCEPT ![p] = Fetch(journals, entriesTbl, jid[p])]
    /\ pc' = [pc EXCEPT ![p] = "done"]
    /\ UNCHANGED <<store, op, dto, jid, ids, old, obj, err, payload, log>>
    /\ UNCHANGED auto
    /\ UNCHANGED poster
    /\ UNCHANGED meta
    /\ UNCHANGED form

(***************************************************************************)
(* writeJournalEntries.  The revert and the commit effects are calls into  *)
(* the ledger; each completes or fails in a later step.                    *)
(***************************************************************************)
\* The rejection of a call into the ledger.
LEDGER_ERROR == "LEDGER_ERROR"

\* manualJournals.forEach(journalCommands.manualJournal), then the four
\* commit effects are called and Promise.all awaits them.
AppendAndCommit(p, idList) ==
    /\ poster' = [poster EXCEPT ![p].lines = @ \o idList,
                                ![p].effects = [e \in Effects |-> "pending"]]
    /\ pc' = [pc EXCEPT ![p] = "commit"]
    /\ UNCHANGED <<err, payload>>

\* writeJournalEntries with the revert called but not awaited.
WriteJournalEntriesRevertNotAwaited(p, idList, override) ==
    /\ pc[p] = "idle"
    /\ op' = [op EXCEPT ![p] = "writeEntries"]
    /\ ids' = [ids EXCEPT ![p] = idList]
    /\ poster' = [poster EXCEPT ![p] =
                     Poster(override, IF override THEN "pending" ELSE "none",
                            idList, [e \in Effects |-> "pending"])]
    /\ pc' = [pc EXCEPT ![p] = "commit"]
    /\ UNCHANGED <<store, dto, jid, old, obj, err, ret, log, payload, auto>>
    /\ UNCHANGED meta
    /\ UNCHANGED form

\* writeJournalEntries up to its first await: the revert when override is
\* set, Promise.all otherwise.
WriteJournalEntries(p, idList, override) ==
    /\ pc[p] = "idle"
    /\ op' = [op EXCEPT ![p] = "writeEntries"]
    /\ ids' = [ids EXCEPT ![p] = idList]
    /\ IF override
       THEN /\ poster' = [poster EXCEPT ![p] =
                             Poster(TRUE, "pending", <<>>, [e \in Effects |-> "idle"])]
            /\ pc' = [pc EXCEPT ![p] = "revert"]
            /\ UNCHANGED <<err, payload>>
       ELSE AppendAndCommit(p, idList)
    /\ UNCHANGED <<store, dto, jid, old, obj, ret, log, auto>>
    /\ UNCHANGED meta
    /\ UNCHANGED form

\* await journalCommands.revertJournalEntries(manualJournalsIds, 'Journal')
\* settles: the method goes on, or throws what the revert rejected with.
RevertSettles(p, ok) ==
    /\ pc[p] = "revert"
    /\ IF ok
       THEN /\ poster' = [poster EXCEPT ![p].revert = "done",
                                       ![p].lines = @ \o ids[p],
                                       ![p].effects = [e \in Effects |-> "pending"]]
            /\ pc' = [pc EXCEPT ![p] = "commit"]
            /\ UNCHANGED <<err, payload>>
       ELSE /\ poster' = [poster EXCEPT ![p].revert = "failed"]
            /\ Throw(p, LEDGER_ERROR)
    /\ UNCHANGED <<store, op, dto, jid, ids, old, obj, ret, log, auto>>
    /\ UNCHANGED meta
    /\ UNCHANGED form

\* Promise.allSettled in the place of Promise.all: fulfilled once no effect
\* is pending.
PromiseAllSettled(effects) ==
    IF \E e \in Effects : effects[e] = "pending" THEN "pending" ELSE "fulfilled"

\* Promise.all over the four effects: rejected as soon as one failed,
\* fulfilled when all are ok.
PromiseAll(effects) ==
    IF \E e \in Effects : effects[e] = "failed" THEN "rejected"
    ELSE IF \A e \in Effects : effects[e] = "ok" THEN "fulfilled"
    ELSE "pending"

\* One commit effect settles; the method, if it still awaits Promise.all,
\* returns or throws when Promise.all settles.
EffectSettles(p, e, ok) ==
    /\ pc[p] \in {"commit", "failed"}
    /\ poster[p].effects[e] = "pending"
    /\ poster' = [poster EXCEPT ![p].effects[e] = IF ok THEN "ok" ELSE "failed"]
    /\ log' = [log EXCEPT ![p] = Append(@, Settled(e, ok))]
    /\ IF pc[p] = "commit" /\ PromiseAll(poster'[p].effects) = "rejected"
       THEN Throw(p, LEDGER_ERROR)
       ELSE IF pc[p] = "commit" /\ PromiseAll(poster'[p].effects) = "fulfilled"
            THEN pc' = [pc EXCEPT ![p] = "done"] /\ UNCHANGED <<err, payload>>
            ELSE UNCHANGED <<pc, err, payload>>
    /\ UNCHANGED <<store, op, dto, jid, ids, old, obj, ret, auto>>
    /\ UNCHANGED meta
    /\ UNCHANGED form

(***************************************************************************)
(* amountPaymentEntries (webapp, PaymentReceiveForm/utils.tsx).            *)
(***************************************************************************)
\* The amounts a payment can have, the due amounts an invoice can have and
\* the number of invoices of a form.
MaxAmount == 4
MaxDue == 2
MaxInvoices == 3

\* An entry of the form, with the fields the function reads or writes and
\* one it only copies.
Item(invoiceNo, dueAmount, paymentAmount) ==
    [invoice_no |-> invoiceNo, due_amount |-> dueAmount, payment_amount |-> paymentAmount]

\* The entries of a form: one per due invoice, nothing paid yet.
FormEntries ==
    { [i \in DOMAIN dues |-> Item(i, dues[i], 0)] :
        dues \in UNION { [1..n -> 0..MaxDue] : n \in 0..MaxInvoices } }

MathMin(a, b) == IF a <= b THEN a ELSE b
MathMax(a, b) == IF a >= b THEN a ELSE b

RECURSIVE MapItems(_, _)
\* entries.map(...) with the running total the callback updates.
MapItems(total, entries) ==
    IF entries = <<>> THEN <<>>
    ELSE LET item == entries[1]
             diff == MathMin(item.due_amount, total)
         IN  << [item EXCEPT !.payment_amount = diff] >>
                 \o MapItems(total - MathMax(diff, 0), Tail(entries))

\* amountPaymentEntries with the total never reduced.
amountPaymentEntriesTotalKept(amount, entries) ==
    [i \in DOMAIN entries |->
        [entries[i] EXCEPT !.payment_amount = MathMin(entries[i].due_amount, amount)]]

amountPaymentEntries(amount, entries) ==
    MapItems(amount, entries)

\* The form applies amountPaymentEntries to its amount and entries.
AmountPaymentEntries ==
    /\ ~ form.applied
    /\ form' = Form(form.amount, form.entries,
                    amountPaymentEntries(form.amount, form.entries), TRUE)
    /\ UNCHANGED <<store, pc, op, dto, jid, ids, old, obj, err, ret, log,
                   payload, auto, poster, meta>>

(***************************************************************************)
(* Specifications.                                                         *)
(***************************************************************************)
\* One request at a time, every method of the service.
Next ==
    \E p \in SeqProcs :
        \/ \E d \in DTOsOver(FewEntries), a \in AutoNumbers, now \in Times :
               MakeJournalEntries(p, d, a, now)
        \/ \E id \in JournalIds, d \in DTOsOver(FewEntries), now \in Times :
               EditJournalEntries(p, id, d, now)
        \/ ValidateContacts(p)
        \/ ValidateAccounts(p)
        \/ ValidateUnique(p)
        \/ ValidateContactType(p)
        \/ UpsertNew(p)
        \/ UpsertEdit(p)
        \/ Refetch(p)
        \/ \E id \in JournalIds : DeleteManualJournal(p, id)
        \/ \E idList \in IdLists : DeleteManualJournals(p, idList)
        \/ DeleteEntries(p)
        \/ DeleteJournal(p)
        \/ \E id \in JournalIds : PublishManualJournal(p, id)
        \/ \E idList \in IdLists : PublishManualJournals(p, idList)
        \/ \E now \in Times : Patch(p, now)
        \/ \E id \in JournalIds : GetManualJournal(p, id)
        \/ FetchJournal(p)
        \/ Return(p)

Spec == Init /\ [][Next]_vars

(***************************************************************************)
(* One create or edit, with every entries list, on a storage the service   *)
(* can have built: empty, one draft journal, or a draft and a published    *)
(* journal.                                                                *)
(***************************************************************************)
StoredSamples ==
    { [rows |-> <<>>, n |-> 0],
      [rows |-> (1 :> Row(1, 1, NotPublished, 1)), n |-> 1],
      [rows |-> (1 :> Row(1, 1, NotPublished, 1)) @@ (2 :> Row(2, 2, 1, 1)), n |-> 2] }

ValInit ==
    /\ \E s \in StoredSamples :
          /\ journals = s.rows
          /\ entriesTbl = [i \in JournalIds |->
                              IF i \in DOMAIN s.rows THEN CashEntries ELSE <<>>]
          /\ nextId = s.n + 1
    /\ pc = [p \in AllProcs |-> "idle"]
    /\ op = [p \in AllProcs |-> "none"]
    /\ dto = [p \in AllProcs |-> EmptyDTO]
    /\ jid = [p \in AllProcs |-> 0]
    /\ ids = [p \in AllProcs |-> <<>>]
    /\ old = [p \in AllProcs |-> <<>>]
    /\ obj = [p \in AllProcs |-> NoModel]
    /\ err = [p \in AllProcs |-> NoErr]
    /\ ret = [p \in AllProcs |-> <<>>]
    /\ log = [p \in AllProcs |-> <<>>]
    /\ payload = [p \in AllProcs |-> NoPayload]
    /\ auto = [p \in AllProcs |-> 0]
    /\ poster = [p \in AllProcs |-> NoPoster]
    /\ meta = [p \in AllProcs |-> NoMeta]
    /\ form = NoForm

ValNext ==
    \E p \in SeqProcs :
        \/ \E d \in DTOsOver(AllEntries), a \in AutoNumbers, now \in Times :
               MakeJournalEntries(p, d, a, now)
        \/ \E id \in JournalIds, d \in DTOsOver(AllEntries), now \in Times :
               EditJournalEntries(p, id, d, now)
        \/ ValidateContacts(p)
        \/ ValidateAccounts(p)
        \/ ValidateUnique(p)
        \/ ValidateContactType(p)
        \/ UpsertNew(p)
        \/ UpsertEdit(p)
        \/ Refetch(p)

ValSpec == ValInit /\ [][ValNext]_vars

(***************************************************************************)
(* Two requests at once, each a create or an edit of a valid draft.        *)
(***************************************************************************)
ConcDTOs == { DTO(n, FALSE, CashEntries) : n \in AutoNumbers }

ConcNext ==
    \E p \in AllProcs :
        \/ \E d \in ConcDTOs, a \in AutoNumbers, now \in Times :
               MakeJournalEntries(p, d, a, now)
        \/ \E id \in JournalIds, d \in ConcDTOs, now \in Times :
               EditJournalEntries(p, id, d, now)
        \/ ValidateContacts(p)
        \/ ValidateAccounts(p)
        \/ ValidateUnique(p)
        \/ ValidateContactType(p)
        \/ UpsertNew(p)
        \/ UpsertEdit(p)
        \/ Refetch(p)
        \/ Return(p)

ConcSpec == Init /\ [][ConcNext]_vars

(***************************************************************************)
(* A caller that creates journals and a caller that reads them: between a  *)
(* create and a get no other method runs.                                  *)
(***************************************************************************)
\* A list with a negative value that the balance rule accepts.
NegativeEntries ==
    Indexed(<<Entry(0, Cash, -1, 1, NoContact, ""), Entry(0, Cash, 1, 0, NoContact, "")>>)

ReadNext ==
    \/ \E p \in SeqProcs :
          \/ \E d \in DTOsOver(FewEntries \cup {NegativeEntries}),
                   a \in AutoNumbers, now \in Times :
                 MakeJournalEntries(p, d, a, now)
          \/ ValidateContacts(p)
          \/ ValidateAccounts(p)
          \/ ValidateUnique(p)
          \/ ValidateContactType(p)
          \/ UpsertNew(p)
    \/ \E q \in AllProcs \ SeqProcs :
          \/ \E id \in JournalIds : GetManualJournal(q, id)
          \/ FetchJournal(q)
    \/ \E p \in AllProcs : Return(p)

ReadSpec == Init /\ [][ReadNext]_vars

(***************************************************************************)
(* A caller that deletes journals while another caller reads them, on a    *)
(* storage of journals that all have entries.                              *)
(***************************************************************************)
DeleteNext ==
    \/ \E p \in SeqProcs :
          \/ \E id \in JournalIds : DeleteManualJournal(p, id)
          \/ \E idList \in IdLists : DeleteManualJournals(p, idList)
          \/ DeleteEntries(p)
          \/ DeleteJournal(p)
    \/ \E q \in AllProcs \ SeqProcs :
          \/ \E id \in JournalIds : GetManualJournal(q, id)
          \/ FetchJournal(q)
    \/ \E p \in AllProcs : Return(p)

DeleteSpec == ValInit /\ [][DeleteNext]_vars

(***************************************************************************)
(* Calls of writeJournalEntries, one at a time.                            *)
(***************************************************************************)
LedgerNext ==
    \E p \in SeqProcs :
        \/ \E idList \in IdLists \ {<<>>}, override \in BOOLEAN :
               WriteJournalEntries(p, idList, override)
        \/ \E ok \in BOOLEAN : RevertSettles(p, ok)
        \/ \E e \in Effects, ok \in BOOLEAN : EffectSettles(p, e, ok)
        \/ Return(p)

LedgerSpec == Init /\ [][LedgerNext]_vars

(***************************************************************************)
(* Two callers that publish, one journal or a batch, at the same time.     *)
(***************************************************************************)
PublishNext ==
    \E p \in AllProcs :
        \/ \E id \in JournalIds : PublishManualJournal(p, id)
        \/ \E idList \in IdLists : PublishManualJournals(p, idList)
        \/ \E now \in Times : Patch(p, now)
        \/ Refetch(p)
        \/ Return(p)

PublishSpec == ValInit /\ [][PublishNext]_vars

(***************************************************************************)
(* amountPaymentEntries on every amount and every list of entries.         *)
(***************************************************************************)
PayInit ==
    /\ journals = <<>>
    /\ entriesTbl = [i \in JournalIds |-> <<>>]
    /\ nextId = 1
    /\ pc = [p \in AllProcs |-> "idle"]
    /\ op = [p \in AllProcs |-> "none"]
    /\ dto = [p \in AllProcs |-> EmptyDTO]
    /\ jid = [p \in AllProcs |-> 0]
    /\ ids = [p \in AllProcs |-> <<>>]
    /\ old = [p \in AllProcs |-> <<>>]
    /\ obj = [p \in AllProcs |-> NoModel]
    /\ err = [p \in AllProcs |-> NoErr]
    /\ ret = [p \in AllProcs |-> <<>>]
    /\ log = [p \in AllProcs |-> <<>>]
    /\ payload = [p \in AllProcs |-> NoPayload]
    /\ auto = [p \in AllProcs |-> 0]
    /\ poster = [p \in AllProcs |-> NoPoster]
    /\ meta = [p \in AllProcs |-> NoMeta]
    /\ \E amount \in 0..MaxAmount, entries \in FormEntries :
          form = Form(amount, entries, <<>>, FALSE)

PayNext == AmountPaymentEntries

PaySpec == PayInit /\ [][PayNext]_vars

(***************************************************************************)
(* Claims.                                                                 *)
(***************************************************************************)
\* Every validation rule passes for the input of request p, on the storage
\* as it is now.
AllRulesPass(p) ==
    /\ valdiateCreditDebitTotalEquals(dto[p].entries) = NoErr
    /\ validateContactsExistance(dto[p].entries) = NoErr
    /\ validateAccountsExistance(dto[p].entries) = NoErr
    /\ LET n == IF op[p] = "create" THEN obj[p].journalNumber
                ELSE dto[p].journalNumber
       IN  n # 0 => \A i \in DOMAIN journals \ {jid[p]} : journals[i].journalNumber # n
    /\ validateAccountWithContactType(dto[p].entries, "accounts-receivable", "customer") = NoErr
    /\ validateAccountWithContactType(dto[p].entries, "accounts-payable", "vendor") = NoErr

C1_Step ==
    \A p \in SeqProcs :
        op'[p] \in {"create", "edit"} =>
            /\ (store' # store) => log'[p] # log[p]
            /\ (log'[p] # log[p]) => (err[p] = NoErr /\ AllRulesPass(p))
            /\ (err'[p] # NoErr) => (log'[p] = <<>> /\ store' = store)

\* C1: in create and edit a write is issued, and an event dispatched, only by
\* a request whose input passes every validation rule; a request in which a
\* rule raised an error has issued no write, has dispatched no event, and the
\* step that raises the error leaves the stored journals and entries as they
\* were.
C1_ValidationBeforeWrite == [][C1_Step]_vars

\* C1 witness: an edit failed at the last rule (contact type by account)
\* with nothing written.
C1_Witness ==
    \E p \in SeqProcs :
        /\ op[p] = "edit" /\ pc[p] = "failed"
        /\ err[p] = ENTRIES_SHOULD_ASSIGN_WITH_CONTACT
        /\ log[p] = <<>>

\* C2: every stored journal has amount = the sum of its entries' credit =
\* the sum of its entries' debit, whatever entries list the validation
\* accepted.
C2_StoredJournalsBalanced ==
    \A i \in DOMAIN journals :
        /\ journals[i].amount = SumCredit(entriesTbl[i])
        /\ SumCredit(entriesTbl[i]) = SumDebit(entriesTbl[i])

\* C3: after the write of an edit, a journal that was published before the
\* edit has the publishedAt it had, and a journal that was a draft is
\* published exactly when the DTO asked for it.
C3_EditKeepsPublishedAt ==
    \A p \in SeqProcs :
        (op[p] = "edit" /\ pc[p] \in {"refetch", "done"}) =>
            IF old[p][1].publishedAt # NotPublished
            THEN journals[jid[p]].publishedAt = old[p][1].publishedAt
            ELSE (journals[jid[p]].publishedAt \in Times) <=> dto[p].publish

\* C3 witness: an edit that asks to publish was written for a journal that
\* was already published.
C3_Witness ==
    \E p \in SeqProcs :
        /\ op[p] = "edit" /\ pc[p] = "done"
        /\ dto[p].publish
        /\ old[p][1].publishedAt # NotPublished

\* The rules that run before the journal-number rule pass for p's input.
EarlierRulesPass(p) ==
    /\ valdiateCreditDebitTotalEquals(dto[p].entries) = NoErr
    /\ validateContactsExistance(dto[p].entries) = NoErr
    /\ validateAccountsExistance(dto[p].entries) = NoErr

\* Another stored journal than p's own holds the journal number of p's DTO.
NumberHeldByOther(p) ==
    /\ dto[p].journalNumber # 0
    /\ \E i \in DOMAIN journals \ {jid[p]} :
          journals[i].journalNumber = dto[p].journalNumber

\* C4: with one request at a time, and an input that passes the rules run
\* before the journal-number rule: a create whose explicit number a stored
\* journal holds, and an edit whose number another journal holds, get no
\* further than that rule and fail with JOURNAL_NUMBER_EXISTS; an edit that
\* keeps the number of its journal never fails with JOURNAL_NUMBER_EXISTS.
C4_JournalNumberExists ==
    \A p \in SeqProcs :
        /\ ( /\ op[p] = "create" \/ (op[p] = "edit" /\ old[p] # <<>>)
             /\ pc[p] \notin {"idle", "contacts", "accounts", "unique"}
             /\ EarlierRulesPass(p)
             /\ NumberHeldByOther(p) )
           => (pc[p] = "failed" /\ err[p] = JOURNAL_NUMBER_EXISTS)
        /\ ( /\ op[p] = "edit" /\ old[p] # <<>>
             /\ dto[p].journalNumber = old[p][1].journalNumber )
           => err[p] # JOURNAL_NUMBER_EXISTS

\* C4 witness: an edit that keeps the number of its journal has been written
\* while another journal is stored.
C4_Witness ==
    \E p \in SeqProcs :
        /\ op[p] = "edit" /\ pc[p] = "done"
        /\ dto[p].journalNumber = old[p][1].journalNumber
        /\ DOMAIN journals \ {jid[p]} # {}

\* C4, second case reached: a create failed with JOURNAL_NUMBER_EXISTS.
C4_CreateRejected ==
    \E p \in SeqProcs :
        /\ op[p] = "create" /\ pc[p] = "failed"
        /\ err[p] = JOURNAL_NUMBER_EXISTS /\ NumberHeldByOther(p)

\* C5: no two stored journals have the same journalNumber.
C5_NumbersUnique ==
    \A i \in DOMAIN journals : \A j \in DOMAIN journals :
        i # j => journals[i].journalNumber # journals[j].journalNumber

\* Request p is a create or an edit that got as far as the balance rule:
\* its journal number was resolved (create), its journal was found (edit).
ReachedBalanceRule(p) ==
    /\ op[p] \in {"create", "edit"}
    /\ err[p] \notin {MANUAL_JOURNAL_NO_REQUIRED, NOT_FOUND}

\* The storage is one of the storages a single create or edit starts from.
NothingPersisted ==
    \E s \in StoredSamples :
        /\ journals = s.rows
        /\ nextId = s.n + 1
        /\ entriesTbl = [i \in JournalIds |->
                            IF i \in DOMAIN s.rows THEN CashEntries ELSE <<>>]

RECURSIVE PositiveSum(_)
\* The sum of the numbers of a sequence that are greater than zero.
PositiveSum(ns) ==
    IF ns = <<>> THEN 0
    ELSE (IF ns[1] > 0 THEN ns[1] ELSE 0) + PositiveSum(Tail(ns))

Credits(es) == [i \in DOMAIN es |-> es[i].credit]
Debits(es) == [i \in DOMAIN es |-> es[i].debit]

C7_ZeroTotalsRejected ==
    \A p \in SeqProcs :
        ( /\ ReachedBalanceRule(p)
          /\ \/ SumCredit(dto[p].entries) <= 0
             \/ SumDebit(dto[p].entries) <= 0 )
        => (pc[p] = "failed" /\ err[p] = CREDIT_DEBIT_NOT_EQUAL_ZERO)

C8_DraftPublished ==
    \E p \in SeqProcs :
        /\ op[p] = "publish" /\ pc[p] = "done"
        /\ old[p][1].publishedAt = NotPublished

C9_Step ==
    \A p \in SeqProcs :
        op'[p] = "publishBulk" =>
            \A i \in DOMAIN journals :
                /\ i \in DOMAIN journals'
                /\ journals'[i] # journals[i] =>
                      /\ i \in Range(ids'[p])
                      /\ journals[i].publishedAt = NotPublished
                      /\ journals'[i] = [journals[i] EXCEPT !.publishedAt = journals'[i].publishedAt]
                      /\ journals'[i].publishedAt \in Times

\* No journal of a bulk publish that was found published makes it fail.
C9_NoError ==
    \A p \in SeqProcs :
        (op[p] = "publishBulk" /\ \A i \in Range(ids[p]) : i \in DOMAIN journals)
            => pc[p] # "failed"

\* Every draft of a bulk publish that is done has been stamped.
C9_DraftsStamped ==
    \A p \in SeqProcs :
        (op[p] = "publishBulk" /\ pc[p] = "done") =>
            \A i \in Range(ids[p]) : journals[i].publishedAt \in Times

\* C9: a step of publishManualJournals changes only requested journals that
\* were drafts, and of them only publishedAt: a journal already published
\* keeps its publishedAt; the method does not fail when all its journals are
\* stored, and when it is done all of them are published.
C9_BulkPublishSkipsPublished == [][C9_Step]_vars /\ []C9_NoError /\ []C9_DraftsStamped

\* C9 witness: a bulk publish of a published journal and a draft is done and
\* the two journals have different publishedAt.
C9_Witness ==
    \E p \in SeqProcs :
        /\ op[p] = "publishBulk" /\ pc[p] = "done"
        /\ Len(old[p]) = 2
        /\ old[p][1].publishedAt # NotPublished
        /\ old[p][2].publishedAt = NotPublished
        /\ journals[old[p][1].id].publishedAt # journals[old[p][2].id].publishedAt

C10_Step ==
    \A p \in SeqProcs :
        ( /\ pc[p] = "idle"
          /\ op'[p] \in {"deleteBulk", "publishBulk"}
          /\ \E i \in Range(ids'[p]) : i \notin DOMAIN journals )
        => ( /\ pc'[p] = "failed" /\ err'[p] = NOT_FOUND
             /\ store' = store
             /\ log'[p] = <<>> )

\* A request that failed has issued no write and dispatched no event.
C10_FailedWroteNothing ==
    \A p \in SeqProcs :
        (op[p] \in {"deleteBulk", "publishBulk"} /\ pc[p] = "failed") => log[p] = <<>>

\* C10: a call of deleteManualJournals or publishManualJournals with an id
\* that is not stored fails with NOT_FOUND in the step that resolves the
\* journals, with the journals and entries left as they were, no write issued
\* and no event dispatched.
C10_BulkAllOrNothing == [][C10_Step]_vars /\ []C10_FailedWroteNothing

\* C10 witness: a bulk delete of a stored and a missing journal failed and
\* the stored journal is still there with its entries.
C10_Witness ==
    \E p \in SeqProcs :
        /\ op[p] = "deleteBulk" /\ pc[p] = "failed" /\ err[p] = NOT_FOUND
        /\ \E i \in Range(ids[p]) : i \in DOMAIN journals /\ entriesTbl[i] # <<>>
        /\ \E i \in Range(ids[p]) : i \notin DOMAIN journals

\* The positions of the entries of the account that do not declare the
\* contact type.
ViolatingIndexes(es, accountId, contactType) ==
    { i \in DOMAIN es :
        es[i].accountId = accountId /\ es[i].contactType # contactType }

\* No stored journal but p's own holds the journal number p is to store.
NumberFree(p) ==
    LET n == IF op[p] = "create" THEN obj[p].journalNumber
             ELSE dto[p].journalNumber
    IN  n # 0 => \A i \in DOMAIN journals \ {jid[p]} : journals[i].journalNumber # n

\* The error data names the account, the contact type and exactly the
\* indexes of the set, each once.
ReportsIndexes(data, slug, ctype, indexes) ==
    /\ indexes # {}
    /\ data.accountSlug = slug
    /\ data.contactType = ctype
    /\ Range(data.indexes) = indexes
    /\ Len(data.indexes) = Cardinality(indexes)

\* C11: in create and edit, a request gets past the contact-type rule only
\* when every accounts-receivable entry declares "customer" and every
\* accounts-payable entry declares "vendor"; when the rules before it pass
\* and an entry does not, the request fails with
\* ENTRIES_SHOULD_ASSIGN_WITH_CONTACT; the data of that error is the slug of
\* one of the two accounts, its contact type and the index of every entry of
\* that account at fault; with no entry of the two accounts at fault the
\* error is never raised.
C11_ContactTypeByAccount ==
    \A p \in SeqProcs :
        op[p] \in {"create", "edit"} =>
            LET es == dto[p].entries
                ar == ViolatingIndexes(es, Receivable, "customer")
                ap == ViolatingIndexes(es, Payable, "vendor")
            IN  /\ pc[p] \in {"upsert", "refetch", "done"} => (ar = {} /\ ap = {})
                /\ ( /\ pc[p] \notin {"idle", "contacts", "accounts", "unique", "contactType"}
                     /\ ReachedBalanceRule(p)
                     /\ EarlierRulesPass(p) /\ NumberFree(p)
                     /\ ar \cup ap # {} )
                   => (pc[p] = "failed" /\ err[p] = ENTRIES_SHOULD_ASSIGN_WITH_CONTACT)
                /\ err[p] = ENTRIES_SHOULD_ASSIGN_WITH_CONTACT =>
                      \/ ReportsIndexes(payload[p], "accounts-receivable", "customer", ar)
                      \/ ReportsIndexes(payload[p], "accounts-payable", "vendor", ap)
                /\ (ar = {} /\ ap = {}) => err[p] # ENTRIES_SHOULD_ASSIGN_WITH_CONTACT

\* C11 witness: a create failed with the indexes of two accounts-receivable
\* entries in the data of its error.
C11_Witness ==
    \E p \in SeqProcs :
        /\ op[p] = "create" /\ pc[p] = "failed"
        /\ err[p] = ENTRIES_SHOULD_ASSIGN_WITH_CONTACT
        /\ payload[p].accountSlug = "accounts-receivable"
        /\ payload[p].indexes = <<1, 2>>

\* C11, second case reached: an edit failed on an accounts-payable entry
\* while an accounts-receivable entry was at fault too.
C11_PayableReported ==
    \E p \in SeqProcs :
        /\ op[p] = "edit" /\ pc[p] = "failed"
        /\ payload[p].accountSlug = "accounts-payable"
        /\ ViolatingIndexes(dto[p].entries, Receivable, "customer") # {}

\* An entry names a contact that is not stored, or one stored with another
\* contactService than the entry's contactType.
ContactRuleViolated(es) ==
    \E i \in DOMAIN es :
        /\ es[i].contactId # NoContact
        /\ \A c \in Contacts :
               c.id = es[i].contactId => c.contactService # es[i].contactType

\* An entry names an account that is not stored.
AccountRuleViolated(es) ==
    \E i \in DOMAIN es : \A a \in Accounts : a.id # es[i].accountId

\* The error of the first rule, in the order balance, contacts, accounts,
\* journal number, contact type, that the input of p violates; the totals
\* of the balance rule are the sums of the values greater than zero.
FirstViolated(p) ==
    LET es == dto[p].entries
        credit == PositiveSum(Credits(es))
        debit == PositiveSum(Debits(es))
    IN  IF credit <= 0 \/ debit <= 0 THEN CREDIT_DEBIT_NOT_EQUAL_ZERO
        ELSE IF credit # debit THEN CREDIT_DEBIT_NOT_EQUAL
        ELSE IF ContactRuleViolated(es) THEN CONTACTS_NOT_FOUND
        ELSE IF AccountRuleViolated(es) THEN ACCCOUNTS_IDS_NOT_FOUND
        ELSE IF ~ NumberFree(p) THEN JOURNAL_NUMBER_EXISTS
        ELSE IF ViolatingIndexes(es, Receivable, "customer")
                  \cup ViolatingIndexes(es, Payable, "vendor") # {}
             THEN ENTRIES_SHOULD_ASSIGN_WITH_CONTACT
        ELSE NoErr

\* A create or edit that reached the rules and failed raised the error of
\* the first rule its input violates; one that got past the rules violates
\* none.
C12_FirstViolatedRaised ==
    \A p \in SeqProcs :
        ReachedBalanceRule(p) =>
            /\ pc[p] = "failed" => err[p] = FirstViolated(p)
            /\ pc[p] \in {"upsert", "refetch", "done"} => FirstViolated(p) = NoErr

\* The step that starts an edit of a journal that is not stored fails with
\* NOT_FOUND, whatever the DTO.
C12_Step ==
    \A p \in SeqProcs :
        (pc[p] = "idle" /\ op'[p] = "edit" /\ jid'[p] \notin DOMAIN journals)
            => (pc'[p] = "failed" /\ err'[p] = NOT_FOUND)

C12_ContactsFirst ==
    \E p \in SeqProcs :
        /\ op[p] = "edit" /\ pc[p] = "failed"
        /\ err[p] = CONTACTS_NOT_FOUND
        /\ ~ NumberFree(p)
        /\ ViolatingIndexes(dto[p].entries, Receivable, "customer") # {}

C12_MissingJournalFirst ==
    \E p \in SeqProcs :
        /\ op[p] = "edit" /\ err[p] = NOT_FOUND
        /\ PositiveSum(Credits(dto[p].entries)) # PositiveSum(Debits(dto[p].entries))

\* C13: when a create is done and a get of the id it returned is done, the
\* get returned one journal, with that id, whose entries are the entries
\* submitted and whose amount is the sum of their credit.
C13_GetAfterCreate ==
    \A p \in SeqProcs : \A q \in AllProcs \ SeqProcs :
        ( /\ op[p] = "create" /\ pc[p] = "done"
          /\ op[q] = "get" /\ pc[q] = "done"
          /\ jid[q] = ret[p][1].id )
        => ( /\ Len(ret[q]) = 1
             /\ ret[q][1].id = ret[p][1].id
             /\ ret[q][1].entries = dto[p].entries
             /\ ret[q][1].amount = SumCredit(dto[p].entries) )

\* C13 witness: a get of the second journal created is done, the entries
\* submitted holding a negative credit.
C13_Witness ==
    \E p \in SeqProcs : \E q \in AllProcs \ SeqProcs :
        /\ op[p] = "create" /\ pc[p] = "done"
        /\ op[q] = "get" /\ pc[q] = "done"
        /\ jid[q] = ret[p][1].id /\ jid[q] = 2
        /\ dto[p].entries = NegativeEntries

\* The positions of the entries whose contactId is set and names no stored
\* contact, or a contact stored with another contactService than the
\* entry's contactType.
OffendingContacts(es) ==
    { i \in DOMAIN es :
        /\ es[i].contactId # NoContact
        /\ \A c \in Contacts :
               c.id = es[i].contactId => c.contactService # es[i].contactType }

\* C14: a create or edit gets past the contact rule only when no entry with
\* a contactId is at fault; when it fails with CONTACTS_NOT_FOUND the data of
\* the error holds one item for every entry at fault and the identifiers the
\* items carry are the contactIds of those entries, those of contacts that
\* are not stored included.
C14_ContactsReported ==
    \A p \in SeqProcs :
        op[p] \in {"create", "edit"} =>
            LET es == dto[p].entries
                ids14 == payload[p].contactsIds
            IN  /\ pc[p] \in {"accounts", "unique", "contactType", "upsert", "refetch", "done"}
                      => OffendingContacts(es) = {}
                /\ err[p] = CONTACTS_NOT_FOUND =>
                      /\ Len(ids14) = Cardinality(OffendingContacts(es))
                      /\ { ids14[k].id : k \in DOMAIN ids14 }
                            = { es[i].contactId : i \in OffendingContacts(es) }

\* C15: a create, edit, delete (single or bulk) or publish (single or bulk)
\* that is done has issued one write and then dispatched one event, and
\* nothing else.
C15_OneWriteThenOneEvent ==
    \A p \in SeqProcs :
        ( /\ pc[p] = "done"
          /\ op[p] \in {"create", "edit", "delete", "deleteBulk", "publish", "publishBulk"} )
        => ( /\ Len(log[p]) = 2
             /\ log[p][1].kind = "write"
             /\ log[p][2].kind = "event" )

\* C16: the event of a delete that is done carries the journals the method
\* fetched before it removed them: onDeleted the journal of
\* deleteManualJournal, onDeletedBulk the journals of deleteManualJournals.
C16_DeleteEventCarriesSnapshot ==
    \A p \in SeqProcs :
        (pc[p] = "done" /\ op[p] \in {"delete", "deleteBulk"}) =>
            /\ log[p][Len(log[p])].kind = "event"
            /\ log[p][Len(log[p])].name =
                  (IF op[p] = "delete" THEN "onDeleted" ELSE "onDeletedBulk")
            /\ log[p][Len(log[p])].old = old[p]

\* C17: a get that runs while a delete (single or bulk) runs never returns
\* a stored journal whose entries have been removed, and a delete that is
\* done has left none of its journals stored.
C17_DeleteAtomic ==
    /\ \A q \in AllProcs \ SeqProcs :
          (op[q] = "get" /\ pc[q] = "done" /\ ret[q] # <<>>)
              => ret[q][1].entries # <<>>
    /\ \A p \in SeqProcs :
          (op[p] \in {"delete", "deleteBulk"} /\ pc[p] = "done")
              => Targets(p) \cap DOMAIN journals = {}

\* Lines were appended to the poster of p, or a commit effect was started.
AppendedOrCommitting(p) ==
    \/ poster[p].lines # <<>>
    \/ \E e \in Effects : poster[p].effects[e] # "idle"

\* C18: in writeJournalEntries with override, lines are appended and commit
\* effects started only once the revert is done; a revert that failed or is
\* pending has no line appended and no effect started; without override the
\* revert is never called.
C18_RevertBeforeAppend ==
    \A p \in SeqProcs :
        op[p] = "writeEntries" =>
            /\ poster[p].override =>
                  (AppendedOrCommitting(p) => poster[p].revert = "done")
            /\ ~ poster[p].override => poster[p].revert = "none"

\* C18 witness: a call with override of a batch of two journals is done, its
\* revert done and the lines of both journals appended.
C18_Witness ==
    \E p \in SeqProcs :
        /\ op[p] = "writeEntries" /\ pc[p] = "done"
        /\ poster[p].override /\ poster[p].revert = "done"
        /\ Len(poster[p].lines) = 2

\* C18, second case reached: a call without override is committing.
C18_NoOverride ==
    \E p \in SeqProcs :
        /\ op[p] = "writeEntries" /\ pc[p] = "commit"
        /\ ~ poster[p].override /\ poster[p].lines # <<>>

\* C19: writeJournalEntries is done only when the four commit effects have
\* all completed successfully, and a call one of whose effects failed has
\* failed, whatever the order the effects settled in.
C19_AllEffectsOrFailure ==
    \A p \in SeqProcs :
        op[p] = "writeEntries" =>
            /\ pc[p] = "done" => \A e \in Effects : poster[p].effects[e] = "ok"
            /\ (\E e \in Effects : poster[p].effects[e] = "failed") => pc[p] = "failed"

\* C19 witness: a call failed on its last effect to settle, saveBalance,
\* after the three others had succeeded, saveContactsBalance first.
C19_Witness ==
    \E p \in SeqProcs :
        /\ op[p] = "writeEntries" /\ pc[p] = "failed"
        /\ Len(log[p]) = 4
        /\ log[p][1] = Settled("saveContactsBalance", TRUE)
        /\ log[p][4] = Settled("saveBalance", FALSE)

\* C19, second case reached: a call is done, saveEntries having settled
\* before deleteEntries.
C19_DoneAnyOrder ==
    \E p \in SeqProcs :
        /\ op[p] = "writeEntries" /\ pc[p] = "done"
        /\ log[p][1].name = "saveEntries" /\ log[p][2].name = "deleteEntries"

\* C20: a create that is done stored the journal number of the DTO when it
\* has one and the sequencer's number otherwise; a create with neither has
\* failed with MANUAL_JOURNAL_NO_REQUIRED, whatever rules its entries
\* violate, with nothing written, dispatched or stored; and that error is
\* raised in no other case.
C20_JournalNumberResolved ==
    \A p \in SeqProcs :
        op[p] = "create" =>
            /\ pc[p] = "done" =>
                  journals[ret[p][1].id].journalNumber =
                      (IF dto[p].journalNumber # 0 THEN dto[p].journalNumber
                       ELSE auto[p])
            /\ (dto[p].journalNumber = 0 /\ auto[p] = 0) =>
                  /\ pc[p] = "failed" /\ err[p] = MANUAL_JOURNAL_NO_REQUIRED
                  /\ log[p] = <<>> /\ NothingPersisted
            /\ err[p] = MANUAL_JOURNAL_NO_REQUIRED =>
                  (dto[p].journalNumber = 0 /\ auto[p] = 0)

\* C20 witness: a create without number, the sequencer giving none, failed
\* with MANUAL_JOURNAL_NO_REQUIRED on entries that break the balance rule
\* and name a contact that is not stored.
C20_Witness ==
    \E p \in SeqProcs :
        /\ op[p] = "create" /\ pc[p] = "failed"
        /\ err[p] = MANUAL_JOURNAL_NO_REQUIRED
        /\ PositiveSum(Debits(dto[p].entries)) = 0
        /\ OffendingContacts(dto[p].entries) # {}

\* C20, further cases reached: the sequencer's number was stored; the
\* DTO's number was stored, the sequencer giving another.
C20_SequencerNumberStored ==
    \E p \in SeqProcs :
        /\ op[p] = "create" /\ pc[p] = "done"
        /\ dto[p].journalNumber = 0
        /\ journals[ret[p][1].id].journalNumber = 2

C20_ExplicitNumberWins ==
    \E p \in SeqProcs :
        /\ op[p] = "create" /\ pc[p] = "done"
        /\ dto[p].journalNumber = 2 /\ auto[p] = 1
        /\ journals[ret[p][1].id].journalNumber = 2

\* The journals request p resolved.
Resolved(p) == { old[p][k].id : k \in DOMAIN old[p] }

C21_Step ==
    \A p \in SeqProcs :
        op[p] \in {"delete", "deleteBulk"} =>
            /\ entriesTbl' # entriesTbl =>
                  /\ Resolved(p) = Targets(p)
                  /\ journals' = journals
                  /\ Targets(p) \subseteq DOMAIN journals
            /\ journals' # journals =>
                  /\ Resolved(p) = Targets(p)
                  /\ entriesTbl' = entriesTbl
                  /\ \A i \in Targets(p) : entriesTbl[i] = <<>>
                  /\ log[p] = <<Write("deleteEntries")>>

\* A delete that is done issued the delete of the entries, then the delete
\* of the journal rows, then its event.
C21_DoneInOrder ==
    \A p \in SeqProcs :
        (op[p] \in {"delete", "deleteBulk"} /\ pc[p] = "done") =>
            /\ Len(log[p]) = 3
            /\ log[p][1] = Write("deleteEntries")
            /\ log[p][2] = Write("deleteJournal")

\* C21: in deleteManualJournal and deleteManualJournals the step that
\* removes entries runs with every target resolved and every parent row
\* still stored, and the step that removes the parent rows runs after the
\* delete of the entries was completed, the entries of every target gone.
C21_EntriesBeforeParent == [][C21_Step]_vars /\ []C21_DoneInOrder

\* C21 witness: a bulk delete of two journals is done.
C21_Witness ==
    \E p \in SeqProcs :
        /\ op[p] = "deleteBulk" /\ pc[p] = "done"
        /\ Cardinality(Resolved(p)) = 2
        /\ journals = <<>>

\* The requested journals that the call found published, and found drafts.
FoundPublished(p) ==
    { i \in Range(ids[p]) :
        \E k \in DOMAIN old[p] : old[p][k].id = i /\ old[p][k].publishedAt # NotPublished }
FoundDrafts(p) ==
    { i \in Range(ids[p]) :
        \E k \in DOMAIN old[p] : old[p][k].id = i /\ old[p][k].publishedAt = NotPublished }

\* C22 as stated: the counts of a publishManualJournals that is done add
\* up, alreadyPublished + published = total, alreadyPublished being the
\* number of requested journals found published, published the number found
\* drafts, and total the number of ids in the list, duplicates counted.
C22_CountsAddUpToIds ==
    \A p \in SeqProcs :
        (op[p] = "publishBulk" /\ pc[p] = "done") =>
            /\ meta[p].alreadyPublished + meta[p].published = meta[p].total
            /\ meta[p].alreadyPublished = Cardinality(FoundPublished(p))
            /\ meta[p].published = Cardinality(FoundDrafts(p))
            /\ meta[p].total = Len(ids[p])

\* C22 amended: the same, total being the number of distinct ids in the
\* list (the journals the call fetched).
C22_CountsAddUpToJournals ==
    \A p \in SeqProcs :
        (op[p] = "publishBulk" /\ pc[p] = "done") =>
            /\ meta[p].alreadyPublished + meta[p].published = meta[p].total
            /\ meta[p].alreadyPublished = Cardinality(FoundPublished(p))
            /\ meta[p].published = Cardinality(FoundDrafts(p))
            /\ meta[p].total = Cardinality(Range(ids[p]))

\* C22 witness: a bulk publish of a published journal and a draft returned
\* the counts 1, 1 and 2.
C22_Witness ==
    \E p \in SeqProcs :
        /\ op[p] = "publishBulk" /\ pc[p] = "done"
        /\ meta[p] = Meta(1, 1, 2)

\* C22, second case reached: a bulk publish of the same draft twice
\* returned the total 1.
C22_Duplicates ==
    \E p \in SeqProcs :
        /\ op[p] = "publishBulk" /\ pc[p] = "done"
        /\ Len(ids[p]) = 2 /\ ids[p][1] = ids[p][2]
        /\ meta[p] = Meta(0, 1, 1)

\* The journals whose publishedAt the patch of request p has set.
Stamped(p) ==
    IF op[p] \in {"publish", "publishBulk"} /\ Write("patch") \in Range(log[p])
    THEN IF op[p] = "publish" THEN {jid[p]} ELSE FoundDrafts(p)
    ELSE {}

\* C23: of two publish calls, single or bulk, that run at the same time, at
\* most one stamps a given journal: no journal has its publishedAt set by
\* the patches of both.
C23_StampedOnce ==
    \A p \in AllProcs : \A q \in AllProcs :
        p # q => Stamped(p) \cap Stamped(q) = {}

RECURSIVE SumSeq(_)
\* The sum of a sequence of numbers.
SumSeq(ns) == IF ns = <<>> THEN 0 ELSE ns[1] + SumSeq(Tail(ns))

\* C24: for an amount >= 0 and entries of due_amount >= 0, the entries
\* amountPaymentEntries gives are the entries given with only
\* payment_amount changed; every payment_amount is between 0 and the
\* due_amount; the payment_amounts add up to the smaller of the amount and
\* the sum of the due_amounts; and an entry that gets less than its
\* due_amount is followed only by entries that get 0.
C24_GreedyAllocation ==
    form.applied =>
        LET e == form.entries
            r == form.result
            paid == [i \in DOMAIN r |-> r[i].payment_amount]
            due == [i \in DOMAIN e |-> e[i].due_amount]
        IN  /\ Len(r) = Len(e)
            /\ \A i \in DOMAIN r :
                  /\ r[i] = [e[i] EXCEPT !.payment_amount = paid[i]]
                  /\ 0 <= paid[i] /\ paid[i] <= due[i]
                  /\ paid[i] < due[i] => \A j \in DOMAIN r : j > i => paid[j] = 0
            /\ SumSeq(paid) = (IF form.amount <= SumSeq(due) THEN form.amount
                               ELSE SumSeq(due))

\* C24 witness: the amount 3 was allocated to invoices due 2, 2 and 1 as
\* 2, 1 and 0.
C24_Witness ==
    /\ form.applied
    /\ form.amount = 3
    /\ [i \in DOMAIN form.entries |-> form.entries[i].due_amount] = <<2, 2, 1>>
    /\ [i \in DOMAIN form.result |-> form.result[i].payment_amount] = <<2, 1, 0>>

\* C24, second case reached: the amount is more than all that is due.
C24_AmountLeftOver ==
    /\ form.applied
    /\ form.amount = 4
    /\ [i \in DOMAIN form.result |-> form.result[i].payment_amount] = <<1, 2>>

====
